---- MODULE Spec2Model ----
(***************************************************************************)
(* Model of the three Inkscape extensions of this repository:              *)
(*   mass_crop_to_page.py   (MassCropToPage: clip every path to the page)  *)
(*   flatten_groups.py      (FlattenGroups: move nested groups outwards)   *)
(* Numbers are exact rationals (Python floats without rounding error).     *)
(***************************************************************************)
EXTENDS Integers, Sequences, FiniteSets, TLC

VARIABLES
    parent,       \* element -> its parent element, None for the root
    children,     \* element -> its child elements in document order
    transform,    \* element -> its 'transform' attribute
    kind,         \* element -> "svg" | "group" | "layer" | "path"
    ident,        \* element -> its 'id' attribute (NoId when absent)
    geom,         \* path element -> the points of its geometry, local coords
    page,         \* the page bounding box of the document
    clip,         \* element -> id in its 'clip-path' attribute, 0 when absent
    defs,         \* the clipPath definitions appended to svg.defs, in order
    messages,     \* what inkex.errormsg has reported, in order
    args,         \* the arguments of a direct apply_clip_to_path call
    path_idx,     \* position of MassCropToPage.effect in paths_list
    selected,     \* self.svg.selected, in order
    elements_to_process, processed_ids, i, total_moved,  \* FlattenGroups.effect locals
    container_children,  \* children of the current element still to be moved
    element_transform,   \* the current element's parsed transform
    cum0,         \* history: each element's cumulative transform before the run
    extracted,    \* history: how often an element's container children were taken out
    pc            \* "call" | "start" | "run" | "move" | "done" | "aborted"

\* what only FlattenGroups.effect reads or writes
flattenVars == << selected, elements_to_process, processed_ids, i, total_moved,
                  container_children, element_transform, cum0, extracted >>

\* what only MassCropToPage reads or writes
cropVars == << geom, page, clip, defs, args, path_idx >>

vars == << parent, children, transform, kind, ident, messages, pc,
           cropVars, flattenVars >>

\* FlattenGroups' variables while another extension runs.
FlattenIdle ==
    /\ selected = <<>>
    /\ elements_to_process = <<>>
    /\ processed_ids = {}
    /\ i = 0
    /\ total_moved = 0
    /\ container_children = <<>>
    /\ element_transform = <<>>
    /\ cum0 = <<>>
    /\ extracted = <<>>

(***************************************************************************)
(* Bounds of the model.                                                    *)
(***************************************************************************)
MaxDepth == 3      \* elements on the ancestor chain of a direct call
NumPaths == 2      \* path elements of a document that is cropped
NumGroups == 3     \* groups and layers of a document that is flattened
MaxSelected == 2   \* elements in the selection of a flatten run

None == 0


(***************************************************************************)
(* Exact numbers.  <<m, x, q>> stands for m / (q * 10^x), with q > 0       *)
(* coprime to 10 and to m, and m not a multiple of 10 unless x = 0, so     *)
(* that equal numbers are equal tuples.  The split power of ten keeps      *)
(* values such as 1e-14 inside the integers of the checker.                *)
(***************************************************************************)
Abs(n) == IF n < 0 THEN -n ELSE n

RECURSIVE GCD(_, _)
GCD(a, b) == IF b = 0 THEN a ELSE GCD(b, a % b)

RECURSIVE NormQ(_, _, _)
NormQ(m, x, q) ==
    IF q % 2 = 0 THEN NormQ(m * 5, x + 1, q \div 2)
    ELSE IF q % 5 = 0 THEN NormQ(m * 2, x + 1, q \div 5)
    ELSE <<m, x, q>>

RECURSIVE NormZ(_, _, _)
NormZ(m, x, q) ==
    IF m = 0 THEN <<0, 0, 1>>
    ELSE IF x > 0 /\ m % 10 = 0 THEN NormZ(m \div 10, x - 1, q)
    ELSE <<m, x, q>>

Norm(m, x, q) ==
    LET g == GCD(Abs(m), q)
        r == NormQ(m \div g, x, q \div g)
    IN  NormZ(r[1], r[2], r[3])

Num(n) == <<n, 0, 1>>
Dec(m, x) == Norm(m, x, 1)

NAdd(a, b) ==
    IF a[1] = 0 THEN b
    ELSE IF b[1] = 0 THEN a
    ELSE LET X == IF a[2] > b[2] THEN a[2] ELSE b[2]
         IN  Norm(a[1] * b[3] * 10^(X - a[2]) + b[1] * a[3] * 10^(X - b[2]),
                  X, a[3] * b[3])

NNeg(a) == <<-a[1], a[2], a[3]>>
NSub(a, b) == NAdd(a, NNeg(b))

NMul(a, b) ==
    IF a[1] = 0 \/ b[1] = 0 THEN Num(0)
    ELSE Norm(a[1] * b[1], a[2] + b[2], a[3] * b[3])

\* 1 / a, for a # 0
NInv(a) ==
    IF a[1] < 0 THEN Norm(-(a[3] * 10^(a[2])), 0, -a[1])
    ELSE Norm(a[3] * 10^(a[2]), 0, a[1])

\* |a| <= 10^(-k)
NAbsLeqPow10(a, k) ==
    IF a[1] = 0 THEN TRUE
    ELSE IF a[2] >= k
         THEN \/ a[2] - k >= 10
              \/ (Abs(a[1]) + 10^(a[2] - k) - 1) \div 10^(a[2] - k) <= a[3]
         ELSE /\ k - a[2] < 10
              /\ Abs(a[1]) <= a[3] \div 10^(k - a[2])

NLeq(a, b) == NSub(b, a)[1] >= 0

(***************************************************************************)
(* 3x3 matrices [[a,c,e],[b,d,f],[0,0,1]] as the source lays them out.     *)
(***************************************************************************)
Matrix(a, b, c, d, e, f) ==
    << <<a, c, e>>, <<b, d, f>>, <<Num(0), Num(0), Num(1)>> >>

Identity == Matrix(Num(1), Num(0), Num(0), Num(1), Num(0), Num(0))

\* The 'transform' attribute of an element: absent, unparseable, or a matrix.
NoTransform  == [k |-> "none", m |-> Identity]
BadTransform == [k |-> "bad",  m |-> Identity]
Attr(M)      == [k |-> "mat",  m |-> M]

Translate(tx, ty) == Attr(Matrix(Num(1), Num(0), Num(0), Num(1), tx, ty))
Scale(sx, sy)     == Attr(Matrix(sx, Num(0), Num(0), sy, Num(0), Num(0)))
Rotate90          == Attr(Matrix(Num(0), Num(1), Num(-1), Num(0), Num(0), Num(0)))

\* inkex Transform(attribute string): the parsed matrix, or "raise".
ParseTransform(attr) ==
    IF attr.k = "bad" THEN [raised |-> TRUE, m |-> Identity]
    ELSE [raised |-> FALSE, m |-> attr.m]

\* A Transform object, or Python's None.
NoneObj == [none |-> TRUE, m |-> Identity]
TransformObj(M) == [none |-> FALSE, m |-> M]

_transform_to_matrix(transform_obj) ==
    IF transform_obj.none THEN Identity
    ELSE LET mm == transform_obj.m
         IN  Matrix(mm[1][1], mm[2][1], mm[1][2], mm[2][2], mm[1][3], mm[2][3])

_mat_mult(A, B) ==
    << << NAdd(NAdd(NMul(A[1][1], B[1][1]), NMul(A[1][2], B[2][1])), NMul(A[1][3], B[3][1])),
          NAdd(NAdd(NMul(A[1][1], B[1][2]), NMul(A[1][2], B[2][2])), NMul(A[1][3], B[3][2])),
          NAdd(NAdd(NMul(A[1][1], B[1][3]), NMul(A[1][2], B[2][3])), NMul(A[1][3], B[3][3])) >>,
       << NAdd(NAdd(NMul(A[2][1], B[1][1]), NMul(A[2][2], B[2][1])), NMul(A[2][3], B[3][1])),
          NAdd(NAdd(NMul(A[2][1], B[1][2]), NMul(A[2][2], B[2][2])), NMul(A[2][3], B[3][2])),
          NAdd(NAdd(NMul(A[2][1], B[1][3]), NMul(A[2][2], B[2][3])), NMul(A[2][3], B[3][3])) >>,
       << Num(0), Num(0), Num(1) >> >>

\* abs_tol of the isclose test of _mat_inverse: 1e-12
DetTolExp == 12

Det(M) == NSub(NMul(M[1][1], M[2][2]), NMul(M[2][1], M[1][2]))

\* The inverse with the translation column left as it was: a plausible slip.
_mat_inverse_keeps_translation(M) ==
    LET a == M[1][1]  c == M[1][2]  e == M[1][3]
        b == M[2][1]  d == M[2][2]  f == M[2][3]
        det == NSub(NMul(a, d), NMul(b, c))
    IN  IF NAbsLeqPow10(det, DetTolExp) THEN NoneObj
        ELSE LET inv_det == NInv(det)
             IN  TransformObj(Matrix(NMul(d, inv_det), NMul(NNeg(b), inv_det),
                                     NMul(NNeg(c), inv_det), NMul(a, inv_det),
                                     NNeg(e), NNeg(f)))

\* The inverse, or [none |-> TRUE] when the determinant is close to zero.
_mat_inverse(M) ==
    LET a == M[1][1]  c == M[1][2]  e == M[1][3]
        b == M[2][1]  d == M[2][2]  f == M[2][3]
        det == NSub(NMul(a, d), NMul(b, c))
    IN  IF NAbsLeqPow10(det, DetTolExp) THEN NoneObj
        ELSE LET inv_det == NInv(det)
                 ai == NMul(d, inv_det)
                 bi == NMul(NNeg(b), inv_det)
                 ci == NMul(NNeg(c), inv_det)
                 di == NMul(a, inv_det)
                 ei == NMul(NSub(NMul(c, f), NMul(d, e)), inv_det)
                 fi == NMul(NSub(NMul(b, e), NMul(a, f)), inv_det)
             IN  TransformObj(Matrix(ai, bi, ci, di, ei, fi))

_apply_mat_to_point(M, x, y) ==
    << NAdd(NAdd(NMul(M[1][1], x), NMul(M[1][2], y)), M[1][3]),
       NAdd(NAdd(NMul(M[2][1], x), NMul(M[2][2], y)), M[2][3]) >>

(***************************************************************************)
(* MassCropToPage.apply_clip_to_path                                       *)
(***************************************************************************)
\* [element, parent, ..., root]: the walk of lines 178-182
RECURSIVE AncestorWalk(_)
AncestorWalk(el) ==
    IF el = None THEN <<>> ELSE <<el>> \o AncestorWalk(parent[el])

Reversed(s) == [k \in 1..Len(s) |-> s[Len(s) + 1 - k]]

\* anc.transform: the element's Transform, or None when reading it raises
ElementTransform(anc) ==
    LET t == ParseTransform(transform[anc])
    IN  IF t.raised THEN NoneObj ELSE TransformObj(t.m)

RECURSIVE CumulativeLoop(_, _, _)
CumulativeLoop(ancestors, k, cum) ==
    IF k > Len(ancestors) THEN cum
    ELSE CumulativeLoop(ancestors, k + 1,
             _mat_mult(cum, _transform_to_matrix(ElementTransform(ancestors[k]))))

\* The walk without the reversal of line 184: a plausible slip.
CumulativeTransformLeafFirst(path) ==
    CumulativeLoop(AncestorWalk(path), 1, Identity)

\* lines 178-198: the cumulative matrix of root -> element, element included
CumulativeTransform(path) ==
    CumulativeLoop(Reversed(AncestorWalk(path)), 1, Identity)

\* The fallback's sum without the loop, the nearest ancestor only: a plausible slip.
FallbackTranslationParentOnly(el) ==
    IF el = None THEN <<Num(0), Num(0)>>
    ELSE LET tr == transform[el]
             T  == ParseTransform(tr)
         IN  IF tr.k # "none" /\ ~T.raised
             THEN <<T.m[1][3], T.m[2][3]>>
             ELSE <<Num(0), Num(0)>>

\* lines 207-218: the sum of the ancestors' translations, from `parent` upwards
RECURSIVE FallbackTranslation(_)
FallbackTranslation(el) ==
    IF el = None THEN <<Num(0), Num(0)>>
    ELSE LET rest == FallbackTranslation(parent[el])
             tr   == transform[el]
             T    == ParseTransform(tr)
         IN  IF tr.k # "none" /\ ~T.raised
             THEN <<NAdd(rest[1], T.m[1][3]), NAdd(rest[2], T.m[2][3])>>
             ELSE rest

RectShape(x, y, width, height) ==
    [type |-> "rect", x |-> x, y |-> y, width |-> width, height |-> height,
     pts |-> <<>>]

PathShape(pts) ==
    [type |-> "path", x |-> Num(0), y |-> Num(0), width |-> Num(0),
     height |-> Num(0), pts |-> pts]

ClipPathDef(clip_id, shape) ==
    [id |-> clip_id, clipPathUnits |-> "userSpaceOnUse", shape |-> shape]

\* self.svg.get_unique_id('clip_'): an id no definition carries yet
UniqueId(ds) == Len(ds) + 1

Warning(el) == [level |-> "warning", el |-> el]
Error(el)   == [level |-> "error", el |-> el]

\* lines 170-268.  The new values of defs, clip and messages.
apply_clip_to_path(path, width, height, page_left, page_top) ==
    LET cum == CumulativeTransform(path)
        inv == _mat_inverse(cum)
        clip_id == UniqueId(defs)
    IN  IF inv.none
        THEN LET t == FallbackTranslation(parent[path])
                 rect == RectShape(NAdd(NNeg(t[1]), page_left),
                                   NAdd(NNeg(t[2]), page_top), width, height)
             IN  [defs |-> Append(defs, ClipPathDef(clip_id, rect)),
                  clip |-> [clip EXCEPT ![path] = clip_id],
                  messages |-> Append(messages, Warning(path))]
        ELSE LET x0 == page_left                 y0 == page_top
                 x1 == NAdd(page_left, width)    y1 == page_top
                 x2 == NAdd(page_left, width)    y2 == NAdd(page_top, height)
                 x3 == page_left                 y3 == NAdd(page_top, height)
                 p0 == _apply_mat_to_point(inv.m, x0, y0)
                 p1 == _apply_mat_to_point(inv.m, x1, y1)
                 p2 == _apply_mat_to_point(inv.m, x2, y2)
                 p3 == _apply_mat_to_point(inv.m, x3, y3)
             IN  [defs |-> Append(defs, ClipPathDef(clip_id, PathShape(<<p0, p1, p2, p3>>))),
                  clip |-> [clip EXCEPT ![path] = clip_id],
                  messages |-> messages]

(***************************************************************************)
(* A direct call of apply_clip_to_path on the deepest element of a chain   *)
(* root = 1, 2, ..., args.path.                                            *)
(***************************************************************************)
TinyScale == Scale(Dec(1, 7), Dec(1, 7))        \* scale(1e-7): det 1e-14
SkewX1    == Attr(Matrix(Num(1), Num(0), Num(1), Num(1), Num(0), Num(0)))

AncestorTransforms ==
    { NoTransform, BadTransform, Translate(Num(10), Num(20)),
      Scale(Num(2), Num(2)), Rotate90, SkewX1, Scale(Num(0), Num(1)) }

\* The tiny scale sits on the target only: its product with the translations
\* of elements below it would leave the integers of the checker.
TargetTransforms == AncestorTransforms \cup { TinyScale }

ChainNodes == 1..MaxDepth

ClipArgs ==
    [path : ChainNodes, width : {Num(100)}, height : {Num(50)},
     page_left : {Num(0), Num(10)}, page_top : {Num(0), Num(20)}]

InitClip ==
    /\ args \in ClipArgs
    /\ parent = [n \in ChainNodes |-> n - 1]
    /\ children = [n \in ChainNodes |-> <<>>]
    /\ transform \in [ChainNodes -> TargetTransforms]
    /\ \A n \in ChainNodes :
          /\ n < args.path => transform[n] \in AncestorTransforms
          /\ n > args.path => transform[n] = NoTransform
    /\ kind = [n \in ChainNodes |-> IF n = 1 THEN "svg" ELSE "group"]
    /\ ident = [n \in ChainNodes |-> n]
    /\ geom = [n \in ChainNodes |-> <<>>]
    /\ page = [left |-> Num(0), top |-> Num(0), width |-> Num(0), height |-> Num(0)]
    /\ clip = [n \in ChainNodes |-> 0]
    /\ defs = <<>>
    /\ messages = <<>>
    /\ path_idx = 0
    /\ FlattenIdle
    /\ pc = "call"

CallApplyClip ==
    /\ pc = "call"
    /\ LET r == apply_clip_to_path(args.path, args.width, args.height,
                                   args.page_left, args.page_top)
       IN  /\ defs' = r.defs
           /\ clip' = r.clip
           /\ messages' = r.messages
    /\ pc' = "done"
    /\ UNCHANGED << parent, children, transform, kind, ident, geom, page, args,
                    path_idx, flattenVars >>

NextClip == CallApplyClip

SpecClip == InitClip /\ [][NextClip]_vars

(***************************************************************************)
(* MassCropToPage.effect and crop_path_to_rect                             *)
(***************************************************************************)
NMin(a, b) == IF NLeq(a, b) THEN a ELSE b
NMax(a, b) == IF NLeq(a, b) THEN b ELSE a

RECURSIVE MinOf(_, _)
MinOf(pts, c) ==
    IF Len(pts) = 1 THEN pts[1][c] ELSE NMin(pts[1][c], MinOf(Tail(pts), c))

RECURSIVE MaxOf(_, _)
MaxOf(pts, c) ==
    IF Len(pts) = 1 THEN pts[1][c] ELSE NMax(pts[1][c], MaxOf(Tail(pts), c))

NoBox == [raised |-> FALSE, none |-> TRUE, left |-> Num(0), right |-> Num(0),
          top |-> Num(0), bottom |-> Num(0)]

\* path.bounding_box(): the box of the path's points under the path's own
\* transform (no ancestor's); None for an empty path; raises when the
\* path's transform attribute cannot be parsed.
bounding_box(path) ==
    LET T == ParseTransform(transform[path])
        pts == [k \in 1..Len(geom[path]) |->
                   _apply_mat_to_point(T.m, geom[path][k][1], geom[path][k][2])]
    IN  IF T.raised THEN [NoBox EXCEPT !.raised = TRUE]
        ELSE IF Len(pts) = 0 THEN NoBox
        ELSE [raised |-> FALSE, none |-> FALSE,
              left |-> MinOf(pts, 1), right |-> MaxOf(pts, 1),
              top |-> MinOf(pts, 2), bottom |-> MaxOf(pts, 2)]

\* lines 119-139.  The new values of defs, clip and messages.
crop_path_to_rect(path, width, height) ==
    LET bbox == bounding_box(path)
        same == [defs |-> defs, clip |-> clip, messages |-> messages]
    IN  IF bbox.raised
        THEN [same EXCEPT !.messages = Append(messages, Error(path))]
        ELSE IF bbox.none THEN same
        ELSE IF /\ NLeq(Num(0), bbox.left) /\ NLeq(bbox.right, width)
                /\ NLeq(Num(0), bbox.top)  /\ NLeq(bbox.bottom, height)
        THEN same
        ELSE apply_clip_to_path(path, width, height, Num(0), Num(0))

\* The elements below el, el first, in document order.
RECURSIVE DocOrder(_)
RECURSIVE DocOrderAll(_)
DocOrder(el) == <<el>> \o DocOrderAll(children[el])
DocOrderAll(els) ==
    IF els = <<>> THEN <<>> ELSE DocOrder(Head(els)) \o DocOrderAll(Tail(els))

IsPath(el) == kind[el] = "path"

\* svg.xpath('//svg:path')
paths_list == SelectSeq(DocOrder(1), IsPath)

CropNodes == 1..(2 + NumPaths)
CropPaths == 3..(2 + NumPaths)

GroupTransforms ==
    { NoTransform, BadTransform, Translate(Num(10), Num(20)),
      Translate(Num(200), Num(0)), Scale(Num(2), Num(2)), Rotate90,
      Scale(Num(0), Num(1)) }

PathTransforms == { NoTransform, BadTransform, Translate(Num(10), Num(20)) }

Pt(x, y) == <<Num(x), Num(y)>>

Geometries ==
    { <<>>,
      << Pt(10, 10), Pt(20, 20) >>,
      << Pt(90, 10), Pt(120, 20) >> }

Pages ==
    { [left |-> Num(0),  top |-> Num(0),  width |-> Num(100), height |-> Num(50)],
      [left |-> Num(10), top |-> Num(20), width |-> Num(100), height |-> Num(50)] }

ChildrenOf(par, el) ==
    SelectSeq([k \in 1..(2 + NumPaths) |-> k], LAMBDA c : par[c] = el)

InitCrop ==
    /\ parent \in [CropNodes -> 0..2]
    /\ parent[1] = None /\ parent[2] = 1
    /\ \A n \in CropPaths : parent[n] \in {1, 2}
    /\ children = [n \in CropNodes |-> ChildrenOf(parent, n)]
    /\ kind = [n \in CropNodes |->
                 IF n = 1 THEN "svg" ELSE IF n = 2 THEN "group" ELSE "path"]
    /\ transform \in [CropNodes -> GroupTransforms \cup PathTransforms]
    /\ transform[1] = NoTransform
    /\ transform[2] \in GroupTransforms
    /\ \A n \in CropPaths : transform[n] \in PathTransforms
    /\ geom \in [CropNodes -> Geometries]
    /\ geom[1] = <<>> /\ geom[2] = <<>>
    /\ page \in Pages
    /\ ident = [n \in CropNodes |-> n]
    /\ clip = [n \in CropNodes |-> 0]
    /\ defs = <<>>
    /\ messages = <<>>
    /\ args = [path |-> 0, width |-> Num(0), height |-> Num(0),
               page_left |-> Num(0), page_top |-> Num(0)]
    /\ path_idx = 1
    /\ FlattenIdle
    /\ pc = "run"

\* One iteration of the loop of lines 105-117.
CropNextPath ==
    /\ pc = "run"
    /\ path_idx <= Len(paths_list)
    /\ LET r == crop_path_to_rect(paths_list[path_idx], page.width, page.height)
       IN  /\ defs' = r.defs
           /\ clip' = r.clip
           /\ messages' = r.messages
    /\ path_idx' = path_idx + 1
    /\ UNCHANGED << parent, children, transform, kind, ident, geom, page, args,
                    flattenVars, pc >>

\* The loop has run over every path: effect returns.
CropReturn ==
    /\ pc = "run"
    /\ path_idx > Len(paths_list)
    /\ pc' = "done"
    /\ UNCHANGED << parent, children, transform, kind, ident, messages,
                    cropVars, flattenVars >>

NextCrop == CropNextPath \/ CropReturn

SpecCrop == InitCrop /\ [][NextCrop]_vars

(***************************************************************************)
(* Properties of a direct call (SpecClip).                                 *)
(***************************************************************************)
\* T(n): the declared local transform of an element, identity if none is declared
DeclaredMatrix(el) == IF transform[el].k = "mat" THEN transform[el].m ELSE Identity

AllParseable(el) ==
    \A k \in 1..Len(AncestorWalk(el)) : transform[AncestorWalk(el)[k]].k # "bad"

\* T(n0) (T(n1) ( ... (T(nk) pt))): the element's own transform applied first
RECURSIVE LocalToDocument(_, _)
LocalToDocument(el, pt) ==
    IF el = None THEN pt
    ELSE LocalToDocument(parent[el],
                         _apply_mat_to_point(DeclaredMatrix(el), pt[1], pt[2]))

\* T(nk) ( ... (T(n1) (T(n0) pt))): the reverse order
RECURSIVE ReverseOrder(_, _)
ReverseOrder(el, pt) ==
    IF el = None THEN pt
    ELSE LET q == ReverseOrder(parent[el], pt)
         IN  _apply_mat_to_point(DeclaredMatrix(el), q[1], q[2])

\* An affine map is fixed by the images of these three points.
BasisPoints == { <<Num(0), Num(0)>>, <<Num(1), Num(0)>>, <<Num(0), Num(1)>> }

CumApplied(pt) == _apply_mat_to_point(CumulativeTransform(args.path), pt[1], pt[2])

\* C1: the cumulative matrix apply_clip_to_path builds for a target is the
\* ordered product T(n0) * T(n1) * ... * T(nk), root leftmost, the target's
\* own transform last and included, an element without a declared transform
\* counting as the identity; it is not the reverse-order product when the
\* two differ.
C1_CumulativeIsRootFirstProduct ==
    (pc = "done" /\ AllParseable(args.path)) =>
        /\ \A pt \in BasisPoints : CumApplied(pt) = LocalToDocument(args.path, pt)
        /\ (\E pt \in BasisPoints :
                LocalToDocument(args.path, pt) # ReverseOrder(args.path, pt))
           => (\E pt \in BasisPoints : CumApplied(pt) # ReverseOrder(args.path, pt))

\* A three-element chain with an undeclared transform in the middle whose two
\* orders of multiplication differ.
C1_Witness ==
    /\ pc = "done"
    /\ args.path = 3
    /\ AllParseable(3)
    /\ transform[2] = NoTransform
    /\ transform[1] # NoTransform /\ transform[3] # NoTransform
    /\ \E pt \in BasisPoints : LocalToDocument(3, pt) # ReverseOrder(3, pt)

Corners(left, top, width, height) ==
    << <<left, top>>, <<NAdd(left, width), top>>,
       <<NAdd(left, width), NAdd(top, height)>>, <<left, NAdd(top, height)>> >>

\* The clip definition the target refers to.
ClipOf(el) == defs[clip[el]]

\* The emitted clip is a four-point polygon that the cumulative matrix maps
\* back onto the corners of the rectangle, in order.
RoundTrips(el, left, top, width, height) ==
    /\ clip[el] # 0
    /\ ClipOf(el).shape.type = "path"
    /\ Len(ClipOf(el).shape.pts) = 4
    /\ \A k \in 1..4 :
          _apply_mat_to_point(CumulativeTransform(el), ClipOf(el).shape.pts[k][1],
                              ClipOf(el).shape.pts[k][2])
            = Corners(left, top, width, height)[k]

\* C2 as amended: when the determinant of the cumulative matrix M exceeds
\* 1e-12 in absolute value, the emitted clip polygon has four points p0..p3
\* and M maps them back to (left,top), (left+width,top),
\* (left+width,top+height), (left,top+height), in that order.
C2_RoundTripAboveTolerance ==
    (pc = "done" /\ ~NAbsLeqPow10(Det(CumulativeTransform(args.path)), DetTolExp)) =>
        RoundTrips(args.path, args.page_left, args.page_top, args.width, args.height)

\* C2 as claimed: the same for every M with a*d - b*c # 0.
C2_RoundTripWheneverDetNonzero ==
    (pc = "done" /\ Det(CumulativeTransform(args.path)) # Num(0)) =>
        RoundTrips(args.path, args.page_left, args.page_top, args.width, args.height)

\* An invertible chain that turns, shears or scales and moves the rectangle.
C2_Witness ==
    /\ pc = "done"
    /\ Det(CumulativeTransform(args.path)) \notin {Num(0), Num(1)}
    /\ CumulativeTransform(args.path)[1][3] # Num(0)
    /\ CumulativeTransform(args.path)[1][2] # Num(0)
    /\ args.page_left # Num(0)
    /\ RoundTrips(args.path, args.page_left, args.page_top, args.width, args.height)

\* The sum of the translation components (e, f) of the local transforms of
\* the proper ancestors of an element.
RECURSIVE AncestorTranslationSum(_)
AncestorTranslationSum(el) ==
    IF parent[el] = None THEN <<Num(0), Num(0)>>
    ELSE LET rest == AncestorTranslationSum(parent[el])
         IN  <<NAdd(DeclaredMatrix(parent[el])[1][3], rest[1]),
               NAdd(DeclaredMatrix(parent[el])[2][3], rest[2])>>

\* C5: when the determinant of the cumulative matrix is zero,
\* apply_clip_to_path still attaches a clip: an axis-aligned rectangle of the
\* width and height of the reference rectangle at (page_left - tx,
\* page_top - ty), (tx, ty) the sum of the translation components of the
\* ancestors' local transforms, and it reports a warning.
C5_DegenerateFallbackRectangle ==
    (pc = "done" /\ Det(CumulativeTransform(args.path)) = Num(0)) =>
        /\ clip[args.path] # 0
        /\ ClipOf(args.path).shape =
              RectShape(NSub(args.page_left, AncestorTranslationSum(args.path)[1]),
                        NSub(args.page_top, AncestorTranslationSum(args.path)[2]),
                        args.width, args.height)
        /\ \E k \in 1..Len(messages) : messages[k] = Warning(args.path)

\* A degenerate chain that also turns and whose ancestors translate twice.
C5_Witness ==
    /\ pc = "done"
    /\ args.path = 3
    /\ Det(CumulativeTransform(3)) = Num(0)
    /\ transform[1] = Translate(Num(10), Num(20))
    /\ transform[2] = Translate(Num(10), Num(20))
    /\ transform[3] = Scale(Num(0), Num(1))
    /\ ClipOf(3).shape.type = "rect"
    /\ ClipOf(3).shape.x = NSub(args.page_left, Num(20))

(***************************************************************************)
(* Properties of a crop run (SpecCrop).                                    *)
(***************************************************************************)
Invertible(el) == ~NAbsLeqPow10(Det(CumulativeTransform(el)), DetTolExp)

\* C3: in a crop run the rectangle projected for each clipped path with an
\* invertible cumulative transform is the page box (left, top, width,
\* height), also when left or top is not 0: the cumulative transform maps
\* the emitted polygon back onto the corners of the page box.
C3_ClipIsThePageBox ==
    \A el \in DOMAIN clip :
        (pc \in {"run", "done"} /\ clip[el] # 0 /\ Invertible(el)) =>
            RoundTrips(el, page.left, page.top, page.width, page.height)

InPage(pt) ==
    /\ NLeq(page.left, pt[1]) /\ NLeq(pt[1], NAdd(page.left, page.width))
    /\ NLeq(page.top, pt[2])  /\ NLeq(pt[2], NAdd(page.top, page.height))

\* The path's geometry, placed through the whole ancestor chain, lies in the page.
GloballyInside(el) ==
    \A k \in 1..Len(geom[el]) : InPage(LocalToDocument(el, geom[el][k]))

NoElementFails ==
    /\ \A el \in DOMAIN transform : transform[el].k # "bad"
    /\ \A k \in 1..Len(messages) : messages[k].level # "error"

\* C4: after a crop run in which no element fails, every path whose geometry
\* in document coordinates is not entirely inside the page rectangle carries
\* a clip, and a path without a clip lies inside the page rectangle.
C4_EveryOverflowingPathIsClipped ==
    (pc = "done" /\ NoElementFails) =>
        \A el \in DOMAIN kind :
            kind[el] = "path" => (clip[el] = 0 => GloballyInside(el))

(***************************************************************************)
(* inkex.Transform as FlattenGroups uses it                                *)
(***************************************************************************)
\* Transform.absolute_tolerance, the tolerance of Transform's == and !=: 1e-5
AbsTolExp == 5
\* the significant digits str(Transform) writes: "{:.6g}"
SigDigits == 6

RECURSIVE NumDigits(_)
NumDigits(n) == IF n < 10 THEN 1 ELSE 1 + NumDigits(n \div 10)

\* m / 10^k for m >= 0, k > 0, rounded to the nearest integer, ties to even
RoundHalfEven(m, k) ==
    LET q == m \div 10^k
        r == m % 10^k
        half == 5 * 10^(k - 1)
    IN  IF r > half \/ (r = half /\ q % 2 = 1) THEN q + 1 ELSE q

\* A decimal number written with "{:.6g}" and read back.
FormatG(a) ==
    LET am == Abs(a[1])
        k  == NumDigits(am) - SigDigits
        sg == IF a[1] < 0 THEN -1 ELSE 1
    IN  IF k <= 0 THEN a
        ELSE IF k >= a[2]
             THEN Norm(sg * RoundHalfEven(am, k) * 10^(k - a[2]), 0, 1)
             ELSE Norm(sg * RoundHalfEven(am, k), a[2] - k, 1)

\* str(transform) read back as an attribute: every component keeps six
\* significant digits.
TransformStr(T) ==
    Matrix(FormatG(T[1][1]), FormatG(T[2][1]), FormatG(T[1][2]),
           FormatG(T[2][2]), FormatG(T[1][3]), FormatG(T[2][3]))

\* A != B of inkex.Transform: some component differs by more than the tolerance
TransformNe(A, B) ==
    \E r \in 1..2 : \E c \in 1..3 : ~NAbsLeqPow10(NSub(A[r][c], B[r][c]), AbsTolExp)

\* A @ B of inkex.Transform
TransformMatmul(A, B) == _mat_mult(A, B)

\* Transform(el.get('transform')) if el.get('transform') else Transform()
TransformOf(el) ==
    IF transform[el].k = "none" THEN [raised |-> FALSE, m |-> Identity]
    ELSE ParseTransform(transform[el])

\* The attribute written whatever the product is: a plausible slip.
NewTransformAttrAlwaysSet(new_transform) == Attr(TransformStr(new_transform))

\* lines 86-90: the attribute the moved child gets
NewTransformAttr(new_transform) ==
    IF TransformNe(new_transform, Identity)
    THEN Attr(TransformStr(new_transform))
    ELSE NoTransform

(***************************************************************************)
(* FlattenGroups.effect                                                    *)
(***************************************************************************)
IsContainer(el) == kind[el] \in {"group", "layer"}

Remove(s, e) == SelectSeq(s, LAMBDA x : x # e)

IndexOf(s, e) == CHOOSE k \in 1..Len(s) : s[k] = e

\* s with e put in after position k
InsertAfter(s, k, e) == SubSeq(s, 1, k) \o <<e>> \o SubSeq(s, k + 1, Len(s))

NoId == 0

\* lines 16-36: the selection is filtered into the work list
FlattenStart ==
    /\ pc = "start"
    /\ IF selected = <<>>
       THEN /\ messages' = Append(messages, Error(None))
            /\ pc' = "done"
            /\ UNCHANGED elements_to_process
       ELSE IF SelectSeq(selected, IsContainer) = <<>>
       THEN /\ messages' = Append(messages, Error(None))
            /\ pc' = "done"
            /\ UNCHANGED elements_to_process
       ELSE /\ elements_to_process' = SelectSeq(selected, IsContainer)
            /\ pc' = "run"
            /\ UNCHANGED messages
    /\ UNCHANGED << parent, children, transform, kind, ident, cropVars, selected,
                    processed_ids, i, total_moved, container_children,
                    element_transform, cum0, extracted >>

\* lines 43-71: the head of one iteration of the while loop, up to the for loop
FlattenLoopHead ==
    /\ pc = "run"
    /\ i < Len(elements_to_process)
    /\ LET element == elements_to_process[i + 1]
           element_id == ident[element]
           cc == SelectSeq(children[element], IsContainer)
           T == TransformOf(element)
       IN  IF element_id \in processed_ids
           THEN /\ i' = i + 1
                /\ UNCHANGED << processed_ids, container_children,
                                element_transform, extracted, pc >>
           ELSE /\ processed_ids' = processed_ids \cup {element_id}
                /\ IF parent[element] = None \/ cc = <<>>
                   THEN /\ i' = i + 1
                        /\ UNCHANGED << container_children, element_transform,
                                        extracted, pc >>
                   ELSE IF T.raised
                   THEN \* line 71 is outside every try: the exception leaves effect
                        /\ pc' = "aborted"
                        /\ UNCHANGED << i, container_children, element_transform,
                                        extracted >>
                   ELSE /\ container_children' = cc
                        /\ element_transform' = T.m
                        /\ extracted' = [extracted EXCEPT ![element] = @ + 1]
                        /\ pc' = "move"
                        /\ UNCHANGED i
    /\ UNCHANGED << parent, children, transform, kind, ident, messages, cropVars,
                    selected, elements_to_process, total_moved, cum0 >>

\* lines 74-104: one iteration of the for loop, one child moved or reported
FlattenMoveChild ==
    /\ pc = "move"
    /\ container_children # <<>>
    /\ LET element == elements_to_process[i + 1]
           par == parent[element]
           child == Head(container_children)
           child_transform == TransformOf(child)
           new_transform == TransformMatmul(element_transform, child_transform.m)
           removed == [children EXCEPT ![element] = Remove(@, child)]
       IN  IF child_transform.raised
           THEN /\ messages' = Append(messages, Error(child))
                /\ UNCHANGED << parent, children, transform, elements_to_process,
                                total_moved >>
           ELSE /\ transform' = [transform EXCEPT ![child] = NewTransformAttr(new_transform)]
                /\ children' = [removed EXCEPT ![par] =
                                   InsertAfter(@, IndexOf(@, element), child)]
                /\ parent' = [parent EXCEPT ![child] = par]
                /\ elements_to_process' = Append(elements_to_process, child)
                /\ total_moved' = total_moved + 1
                /\ UNCHANGED messages
    /\ container_children' = Tail(container_children)
    /\ UNCHANGED << kind, ident, cropVars, selected, processed_ids, i,
                    element_transform, cum0, extracted, pc >>

\* line 106: the for loop is over
FlattenLoopTail ==
    /\ pc = "move"
    /\ container_children = <<>>
    /\ i' = i + 1
    /\ pc' = "run"
    /\ UNCHANGED << parent, children, transform, kind, ident, messages, cropVars,
                    selected, elements_to_process, processed_ids, total_moved,
                    container_children, element_transform, cum0, extracted >>

\* lines 43, 108: the while loop is over, effect returns
FlattenReturn ==
    /\ pc = "run"
    /\ i >= Len(elements_to_process)
    /\ pc' = "done"
    /\ UNCHANGED << parent, children, transform, kind, ident, messages, cropVars,
                    flattenVars >>

(***************************************************************************)
(* The documents and selections of a flatten run: svg root 1, groups       *)
(* 2..NumGroups+1 each inside the root or an earlier group, one path in    *)
(* the last group.                                                         *)
(***************************************************************************)
FlatGroups == 2..(NumGroups + 1)
FlatPath   == NumGroups + 2
FlatNodes  == 1..(NumGroups + 2)

OuterTransforms ==
    { NoTransform, BadTransform, Translate(Num(5), Num(0)),
      Translate(Num(1000000), Num(0)) }

InnerTransforms ==
    { NoTransform, Translate(Num(-5), Num(0)), Translate(Num(1), Num(0)),
      Scale(Num(2), Num(2)), Translate(Num(0), Dec(4, 6)) }

DeepTransforms == { NoTransform, Translate(Num(0), Num(3)) }

\* every id distinct; no id below group 2; group 3 carrying the id of group 2
IdPatterns ==
    { [n \in FlatNodes |-> n],
      [n \in FlatNodes |-> IF n >= 3 THEN NoId ELSE n],
      [n \in FlatNodes |-> IF n = 3 THEN 2 ELSE n] }

Range(s) == { s[k] : k \in 1..Len(s) }

RECURSIVE DistinctSeqs(_, _)
DistinctSeqs(S, n) ==
    IF n = 0 THEN { <<>> }
    ELSE LET prev == DistinctSeqs(S, n - 1)
         IN  prev \cup { Append(q, e) : q \in { t \in prev : Len(t) = n - 1 }, e \in S }

Selections ==
    { q \in DistinctSeqs(FlatGroups \cup {FlatPath}, MaxSelected) :
        Cardinality(Range(q)) = Len(q) }

\* The map local -> document of an element as a matrix, from the images of
\* the origin and the two unit points.
RenderedTransform(el) ==
    LET o == LocalToDocument(el, <<Num(0), Num(0)>>)
        u == LocalToDocument(el, <<Num(1), Num(0)>>)
        v == LocalToDocument(el, <<Num(0), Num(1)>>)
    IN  Matrix(NSub(u[1], o[1]), NSub(u[2], o[2]),
               NSub(v[1], o[1]), NSub(v[2], o[2]), o[1], o[2])

InitFlatten ==
    /\ parent \in [FlatNodes -> 0..(NumGroups + 1)]
    /\ parent[1] = None
    /\ \A g \in FlatGroups : parent[g] \in 1..(g - 1)
    /\ parent[FlatPath] = NumGroups + 1
    /\ children = [n \in FlatNodes |->
                     SelectSeq([k \in 1..(NumGroups + 2) |-> k],
                               LAMBDA c : parent[c] = n)]
    /\ kind = [n \in FlatNodes |->
                 IF n = 1 THEN "svg" ELSE IF n = FlatPath THEN "path"
                 ELSE IF n = 3 THEN "layer" ELSE "group"]
    /\ ident \in IdPatterns
    /\ \E t2 \in OuterTransforms, t3 \in InnerTransforms,
          rest \in [FlatGroups \ {2, 3} -> DeepTransforms] :
          transform = [n \in FlatNodes |->
                          IF n = 2 THEN t2 ELSE IF n = 3 THEN t3
                          ELSE IF n \in DOMAIN rest THEN rest[n] ELSE NoTransform]
    \* documents vary in their ids or in their transforms
    /\ ident # [n \in FlatNodes |-> n] =>
          \A n \in FlatNodes : transform[n] \in {NoTransform, Translate(Num(5), Num(0))}
    /\ cum0 = [n \in FlatNodes |-> RenderedTransform(n)]
    /\ selected \in Selections
    /\ messages = <<>>
    /\ geom = <<>> /\ page = <<>> /\ clip = <<>> /\ defs = <<>>
    /\ args = <<>> /\ path_idx = 0
    /\ elements_to_process = <<>>
    /\ processed_ids = {}
    /\ i = 0
    /\ total_moved = 0
    /\ container_children = <<>>
    /\ element_transform = <<>>
    /\ extracted = [n \in FlatNodes |-> 0]
    /\ pc = "start"

NextFlatten ==
    \/ FlattenStart
    \/ FlattenLoopHead
    \/ FlattenMoveChild
    \/ FlattenLoopTail
    \/ FlattenReturn

SpecFlatten == InitFlatten /\ [][NextFlatten]_vars

(***************************************************************************)
(* Properties of a flatten run (SpecFlatten).                              *)
(***************************************************************************)
\* C6: after every relocation step of a flatten run the cumulative
\* transform of every element of the document equals the one it had before
\* the run (here: to within the 1e-5 per component that the identity test
\* of the run itself allows).
C6_RenderedPositionPreserved ==
    pc \in {"run", "move", "done"} =>
        \A n \in DOMAIN cum0 : ~TransformNe(RenderedTransform(n), cum0[n])

\* compose(S, N) written out on the six components
ComposeHexad(S, N) ==
    Matrix(NAdd(NMul(S[1][1], N[1][1]), NMul(S[1][2], N[2][1])),
           NAdd(NMul(S[2][1], N[1][1]), NMul(S[2][2], N[2][1])),
           NAdd(NMul(S[1][1], N[1][2]), NMul(S[1][2], N[2][2])),
           NAdd(NMul(S[2][1], N[1][2]), NMul(S[2][2], N[2][2])),
           NAdd(NAdd(NMul(S[1][1], N[1][3]), NMul(S[1][2], N[2][3])), S[1][3]),
           NAdd(NAdd(NMul(S[2][1], N[1][3]), NMul(S[2][2], N[2][3])), S[2][3]))

\* equal to the identity within the tolerance on all six components
IdentityWithinTolerance(M) ==
    \A r \in 1..2 : \A c \in 1..3 :
        NAbsLeqPow10(NSub(M[r][c], Identity[r][c]), AbsTolExp)

\* C7 (as amended): right after an element N is moved out of its container
\* S, N has a transform attribute if and only if compose(S.local_transform,
\* N.local_transform) differs from the identity by more than the tolerance
\* 1e-5 in at least one of the six components; otherwise the attribute is
\* absent even if N had one, and an explicit identity is never stored.
C7_AbsorptionNormalization ==
    [][ (pc = "move" /\ total_moved' = total_moved + 1) =>
          LET S == elements_to_process[i + 1]
              N == Head(container_children)
              composed == ComposeHexad(DeclaredMatrix(S), DeclaredMatrix(N))
          IN  /\ (transform'[N].k # "none") <=> ~IdentityWithinTolerance(composed)
              /\ transform'[N].m = Identity => transform'[N].k = "none"
      ]_vars

\* C7 (as stated): right after an element N is moved out of its container S,
\* N has a transform attribute if and only if compose(S.local_transform,
\* N.local_transform) is not the identity; an explicit identity is never
\* stored.
C7_AttributeIffNotIdentity ==
    [][ (pc = "move" /\ total_moved' = total_moved + 1) =>
          LET S == elements_to_process[i + 1]
              N == Head(container_children)
              composed == ComposeHexad(DeclaredMatrix(S), DeclaredMatrix(N))
          IN  /\ (transform'[N].k # "none") <=> (composed # Identity)
              /\ transform'[N].m = Identity => transform'[N].k = "none"
      ]_vars

\* Group 3 has just been moved out of group 2, the two carried inverse
\* translations, and group 3 is left without a transform attribute.
C7_Witness ==
    /\ pc = "move"
    /\ total_moved = 1
    /\ elements_to_process = <<2, 3>>
    /\ parent[3] = 1
    /\ transform[2] = Translate(Num(5), Num(0))
    /\ cum0[3] = Identity
    /\ transform[3] = NoTransform

NoErrorReported == \A k \in 1..Len(messages) : messages[k].level # "error"

\* C8: when a flatten run ends without a reported error, no element that
\* was selected as a group or layer or was relocated during the run still
\* has a group or layer as a direct child, whatever ids the elements carry.
C8_NoContainerChildLeft ==
    (pc = "done" /\ NoErrorReported) =>
        \A k \in 1..Len(elements_to_process) :
            LET el == elements_to_process[k]
            IN  parent[el] # None => SelectSeq(children[el], IsContainer) = <<>>

\* C9: a failure confined to one element, such as a transform attribute
\* that cannot be parsed, never aborts the run.
C9_FailureNeverAbortsRun == pc # "aborted"

\* C10: the work-list loop terminates with the index at the end of the
\* pending list: whenever the run has stopped the index has reached the end
\* of the list, and no element has its container children extracted more
\* than once.
C10_LoopReachesEndOfList ==
    /\ pc \in {"done", "aborted"} => i >= Len(elements_to_process)
    /\ \A n \in DOMAIN extracted : extracted[n] <= 1

====
